---- MODULE Spec2Model ----
(***************************************************************************)
(* Model of the chat-transcript collector: the HTTP service of app.py      *)
(* (POST /collect, GET /search, GET /chat/{uuid}) with its raw JSON        *)
(* directory and its DuckDB table, the metadata extractor, and the         *)
(* Meilisearch auto-indexer of indexer.py from its setup to its shutdown.  *)
(***************************************************************************)
EXTENDS Integers, Sequences, FiniteSets, TLC

VARIABLES
    store,      \* raw_json directory: file name -> text of the file
    table,      \* chat_data table of DuckDB: the rows, in insertion order
    clock,      \* what datetime.utcnow() last returned
    nreq,       \* number of HTTP requests handled so far
    last,       \* the last HTTP exchange: request, faults injected, response
    pre,        \* the directory and the table as they were before that exchange
    acked,      \* id -> the document of the /collect answered 200 for that id
    input,      \* argument handed to extract_chat_metadata
    result,     \* how that call ended: not called yet, raised, or the value returned
    idx,        \* the Meilisearch index: primary key -> document
    lastcall,   \* the latest call made on the index
    last_hash,  \* IndexingHandler._last_hash: path -> digest
    queue,      \* events the observer has read and not yet dispatched
    th,         \* per thread: where it is inside _handle_file, and its locals
    mainpc,     \* where the main thread is inside run_auto_indexer
    observing,  \* the observer thread: "off", "on", "dead"
    scan,       \* files of the glob not yet handled by the startup loop
    writes,     \* number of writes made to the directory
    dups,       \* number of events delivered beyond one per write
    faults,     \* number of I/O and index faults injected
    raced,      \* whether two _handle_file calls have been in progress at once
    setup       \* setup_meilisearch: health checks made, sleeps taken, connected or not

svcVars == <<table, clock, nreq, last, pre, acked>>
extVars == <<input, result>>
wVars == <<idx, lastcall, last_hash, queue, th, mainpc, observing, scan,
           writes, dups, faults, raced, setup>>
vars == <<store, svcVars, extVars, wVars>>

-----------------------------------------------------------------------------
(* JSON values as Python sees them after json.loads.  Each kind of value    *)
(* has its own field name, so values of different kinds compare unequal.    *)

JNull == [null |-> TRUE]
JBool(b) == [bool |-> b]
JNum(n) == [num |-> n]
JStr(s) == [str |-> s]
JArr(s) == [arr |-> s]
JObj(f) == [obj |-> f]
EmptyDict == <<>>

IsNull(v) == "null" \in DOMAIN v
IsBool(v) == "bool" \in DOMAIN v
IsNum(v) == "num" \in DOMAIN v
IsStr(v) == "str" \in DOMAIN v
IsArr(v) == "arr" \in DOMAIN v
IsObj(v) == "obj" \in DOMAIN v

(* Punctuation and whitespace of a JSON text; literals are their own token. *)
P(c) == [p |-> c]
IsP(t, c) == "p" \in DOMAIN t /\ t.p = c
IsLiteral(t) == IsNull(t) \/ IsBool(t) \/ IsNum(t) \/ IsStr(t)

RECURSIVE KeySeq(_)
KeySeq(S) == IF S = {} THEN <<>>
             ELSE LET k == CHOOSE x \in S : TRUE IN <<k>> \o KeySeq(S \ {k})

(* json.dumps(v): indent = FALSE gives the compact text stored in the       *)
(* chat_data column, indent = TRUE the pretty-printed text of the file.     *)
RECURSIVE Dumps(_, _), DumpsItems(_, _, _), DumpsMembers(_, _, _, _)
Dumps(v, indent) ==
    LET nl == IF indent THEN <<P("nl")>> ELSE <<>> IN
    IF IsArr(v) THEN
        IF v.arr = <<>> THEN <<P("["), P("]")>>
        ELSE <<P("[")>> \o nl \o DumpsItems(v.arr, 1, indent) \o nl \o <<P("]")>>
    ELSE IF IsObj(v) THEN
        IF DOMAIN v.obj = {} THEN <<P("{"), P("}")>>
        ELSE <<P("{")>> \o nl \o DumpsMembers(v.obj, KeySeq(DOMAIN v.obj), 1, indent)
                 \o nl \o <<P("}")>>
    ELSE <<v>>
DumpsItems(s, i, indent) ==
    IF i > Len(s) THEN <<>>
    ELSE Dumps(s[i], indent)
         \o (IF i < Len(s)
             THEN <<P(",")>> \o (IF indent THEN <<P("nl")>> ELSE <<P("sp")>>)
             ELSE <<>>)
         \o DumpsItems(s, i + 1, indent)
DumpsMembers(f, ks, i, indent) ==
    IF i > Len(ks) THEN <<>>
    ELSE <<JStr(ks[i]), P(":"), P("sp")>> \o Dumps(f[ks[i]], indent)
         \o (IF i < Len(ks)
             THEN <<P(",")>> \o (IF indent THEN <<P("nl")>> ELSE <<P("sp")>>)
             ELSE <<>>)
         \o DumpsMembers(f, ks, i + 1, indent)

(* json.loads(text): a recursive-descent parse.  A parse answers             *)
(* [ok, val, pos]; ok = FALSE is json.JSONDecodeError.                       *)
ParseError == [ok |-> FALSE]
RECURSIVE SkipWs(_, _)
SkipWs(t, i) == IF i <= Len(t) /\ (IsP(t[i], "nl") \/ IsP(t[i], "sp"))
                THEN SkipWs(t, i + 1) ELSE i

RECURSIVE ParseValue(_, _), ParseItems(_, _, _), ParseMembers(_, _, _)
ParseValue(t, i0) ==
    LET i == SkipWs(t, i0) IN
    IF i > Len(t) THEN ParseError
    ELSE IF IsLiteral(t[i]) THEN [ok |-> TRUE, val |-> t[i], pos |-> i + 1]
    ELSE IF IsP(t[i], "[") THEN
        LET j == SkipWs(t, i + 1) IN
        IF j <= Len(t) /\ IsP(t[j], "]")
        THEN [ok |-> TRUE, val |-> JArr(<<>>), pos |-> j + 1]
        ELSE ParseItems(t, j, <<>>)
    ELSE IF IsP(t[i], "{") THEN
        LET j == SkipWs(t, i + 1) IN
        IF j <= Len(t) /\ IsP(t[j], "}")
        THEN [ok |-> TRUE, val |-> JObj(EmptyDict), pos |-> j + 1]
        ELSE ParseMembers(t, j, EmptyDict)
    ELSE ParseError
ParseItems(t, i, acc) ==
    LET r == ParseValue(t, i) IN
    IF ~r.ok THEN ParseError
    ELSE LET j == SkipWs(t, r.pos) IN
         IF j > Len(t) THEN ParseError
         ELSE IF IsP(t[j], ",") THEN ParseItems(t, j + 1, Append(acc, r.val))
         ELSE IF IsP(t[j], "]")
              THEN [ok |-> TRUE, val |-> JArr(Append(acc, r.val)), pos |-> j + 1]
         ELSE ParseError
ParseMembers(t, i0, acc) ==
    LET i == SkipWs(t, i0) IN
    IF i > Len(t) \/ ~IsStr(t[i]) THEN ParseError
    ELSE LET c == SkipWs(t, i + 1) IN
         IF c > Len(t) \/ ~IsP(t[c], ":") THEN ParseError
         ELSE LET r == ParseValue(t, c + 1) IN
              IF ~r.ok THEN ParseError
              ELSE LET j == SkipWs(t, r.pos)
                       \* a repeated key keeps its last value
                       acc2 == (t[i].str :> r.val) @@ acc
                   IN IF j > Len(t) THEN ParseError
                      ELSE IF IsP(t[j], ",") THEN ParseMembers(t, j + 1, acc2)
                      ELSE IF IsP(t[j], "}")
                           THEN [ok |-> TRUE, val |-> JObj(acc2), pos |-> j + 1]
                      ELSE ParseError

Loads(t) ==
    LET r == ParseValue(t, 1) IN
    IF r.ok /\ SkipWs(t, r.pos) = Len(t) + 1
    THEN [ok |-> TRUE, val |-> r.val] ELSE ParseError

-----------------------------------------------------------------------------
(* Python operations the handlers apply to parsed JSON.                      *)

(* d.get(k, default) on a dict *)
DictGet(d, k, default) == IF k \in DOMAIN d.obj THEN d.obj[k] ELSE default

(* as Truthy, had the test been `is not None` *)
IsNotNone(v) == ~IsNull(v)

(* bool(v): None, False, 0, "", [] and {} are falsy *)
Truthy(v) ==
    IF IsNull(v) THEN FALSE
    ELSE IF IsBool(v) THEN v.bool
    ELSE IF IsNum(v) THEN v.num # 0
    ELSE IF IsStr(v) THEN v.str # ""
    ELSE IF IsArr(v) THEN v.arr # <<>>
    ELSE DOMAIN v.obj # {}

(* len(v) is defined for str, list and dict; TypeError otherwise *)
HasLen(v) == IsStr(v) \/ IsArr(v) \/ IsObj(v)
PyLen(v) == IF IsStr(v) THEN Len(v.str)
            ELSE IF IsArr(v) THEN Len(v.arr)
            ELSE Cardinality(DOMAIN v.obj)

(* the elements a for-loop over v visits: the items of a list, the           *)
(* characters of a str (each a str), the keys of a dict (each a str)         *)
PyIter(v) == IF IsArr(v) THEN v.arr
             ELSE IF IsStr(v) THEN [i \in 1..Len(v.str) |-> JStr("c")]
             ELSE [i \in 1..Cardinality(DOMAIN v.obj) |-> JStr(KeySeq(DOMAIN v.obj)[i])]

NotReversed(s) == s
Reversed(s) == [i \in 1..Len(s) |-> s[Len(s) + 1 - i]]

-----------------------------------------------------------------------------
(* extract_chat_metadata                                                     *)

Raised == [raised |-> TRUE]
Value(v) == [raised |-> FALSE, val |-> v]

(* next((m['content'] for m in ms if m.get('role') == role), None):          *)
(* the generator stops at the first match, so later elements are not read.   *)
RECURSIVE NextContent(_, _, _)
NextContent(ms, i, role) ==
    IF i > Len(ms) THEN Value(JNull)
    ELSE IF ~IsObj(ms[i]) THEN Raised                    \* m.get: AttributeError
    ELSE IF DictGet(ms[i], "role", JNull) = JStr(role) THEN
        IF "content" \in DOMAIN ms[i].obj
        THEN Value(ms[i].obj["content"])
        ELSE Raised                                      \* m['content']: KeyError
    ELSE NextContent(ms, i + 1, role)

DefaultMetadata ==
    [model_name |-> JStr("unknown"), conversation_length |-> 0,
     first_user_message |-> JNull, last_assistant_message |-> JNull]

(* lines 62-69: the dict display of the try block, evaluated in order *)
ExtractTry(data) ==
    IF ~IsObj(data) THEN Raised                          \* data.get: AttributeError
    ELSE LET msgs == DictGet(data, "messages", JArr(<<>>)) IN
         IF ~HasLen(msgs) THEN Raised                    \* len(): TypeError
         ELSE LET first == NextContent(PyIter(msgs), 1, "user")
                  lastA == NextContent(Reversed(PyIter(msgs)), 1, "assistant")
              IN IF first.raised \/ lastA.raised THEN Raised
                 ELSE Value([model_name |-> DictGet(data, "model", JStr("unknown")),
                             conversation_length |-> PyLen(msgs),
                             first_user_message |-> first.val,
                             last_assistant_message |-> lastA.val])

(* lines 60-78: the try block with its except Exception fallback *)
extract_chat_metadata(data) ==
    LET r == ExtractTry(data) IN
    IF r.raised THEN Value(DefaultMetadata) ELSE r

-----------------------------------------------------------------------------
(* Bounds of the model and the inputs drawn within them.                     *)

JSON_DIR == "raw_json"

MaxMsgs == 3            \* longest `messages` array handed to the extractor
MaxRequests == 3        \* HTTP requests in one run of the service
MaxWrites == 2          \* writes to the watched directory while the indexer runs
MaxDups == 1            \* events beyond one per write in one run
MaxFaults == 1          \* I/O and index faults in one run

Msg(role, content) == JObj([role |-> JStr(role), content |-> JStr(content)])
MsgNoContent(role) == JObj([role |-> JStr(role)])

(* what an element of `messages` may be: well-formed messages of the three   *)
(* roles, a message without content, and an element that is not an object    *)
MsgElems == {Msg("user", "hi"), Msg("assistant", "hello"), Msg("assistant", "bye"),
             Msg("system", "be brief"), MsgNoContent("user"), JNum(42)}

SeqsUpTo(S, n) == UNION {[1..k -> S] : k \in 0..n}

(* what the `messages` field may hold when it is present *)
MessagesValues == {JArr(s) : s \in SeqsUpTo(MsgElems, MaxMsgs)}
                    \cup {JNull, JNum(5), JStr(""), JStr("ab")}

WithModel(f, withModel) == IF withModel THEN ("model" :> JStr("gpt-4")) @@ f ELSE f

ExtractInputs ==
    {JObj(WithModel(("uuid" :> JStr("a")) @@ ("messages" :> m), w)) :
        m \in MessagesValues, w \in BOOLEAN}
    \cup {JObj(WithModel("uuid" :> JStr("a"), w)) : w \in BOOLEAN}
    \cup {JArr(<<>>), JStr("x"), JNull}

(* the requests drawn: documents of two string ids and one numeric id, and   *)
(* every way line 91-105 can turn a payload down                             *)
Envelope(doc) == JObj([data |-> JArr(<<JObj([data |-> doc])>>)])

DocA1 == JObj([uuid |-> JStr("a"), model |-> JStr("gpt-4"),
               messages |-> JArr(<<Msg("user", "hi"), Msg("assistant", "hello")>>)])
DocA2 == JObj([uuid |-> JStr("a"), messages |-> JNull, is_starred |-> JBool(TRUE)])
DocB1 == JObj([uuid |-> JStr("b"), model |-> JStr("gpt-4"),
               messages |-> JArr(<<Msg("user", "hi")>>)])
DocN7 == JObj([uuid |-> JNum(7)])
ValidDocs == {DocA1, DocA2, DocB1, DocN7}

NotJson == <<P("{"), JStr("data")>>
BadEnvelopes == {JObj(EmptyDict), JObj([data |-> JStr("x")]), JObj([data |-> JArr(<<>>)]),
                 JArr(<<>>)}
NoIdDocs == {JObj([model |-> JStr("gpt-4")]), JObj([uuid |-> JStr("")]),
             JObj([uuid |-> JNull])}
OddEnvelopes == {JNum(5), JArr(<<JStr("data")>>), JObj([data |-> JArr(<<JObj(EmptyDict)>>)]),
                 JObj([data |-> JArr(<<JNum(1)>>)]), Envelope(JArr(<<>>))}

Payloads == {Dumps(Envelope(d), FALSE) : d \in ValidDocs \cup NoIdDocs}
              \cup {Dumps(e, FALSE) : e \in BadEnvelopes \cup OddEnvelopes}
              \cup {NotJson}
StorageFaults == {"none", "open", "write", "db"}
LookupIds == {"a", "b", "7", "zz"}

(* the watched directory: two paths that end in .json, one that does not,   *)
(* and the texts written to them.  a.json holds one document of id "a" (as   *)
(* the service writes it) or no JSON at all; b.json holds an array of a      *)
(* document of id "b" and one without id, or a document without id           *)
PathA == JSON_DIR \o "/a.json"
PathB == JSON_DIR \o "/b.json"
PathNotes == JSON_DIR \o "/notes.txt"
DocNoId == JObj([model |-> JStr("gpt-4"), settings |-> JObj(EmptyDict)])
TextA1 == Dumps(DocA1, TRUE)
TextA2 == Dumps(DocA2, TRUE)
TextB == Dumps(JArr(<<DocB1, DocNoId>>), TRUE)
TextNoId == Dumps(DocNoId, TRUE)
WriteOptions == {<<PathA, TextA1>>, <<PathA, TextA2>>, <<PathA, NotJson>>,
                 <<PathB, TextB>>, <<PathB, TextNoId>>}
WatchTexts == {w[2] : w \in WriteOptions}

(* json.loads and json.dumps on the texts and documents drawn above, parsed  *)
(* and printed once; on anything else, parsed and printed on the spot        *)
LoadsTable == [t \in Payloads \cup WatchTexts
                        \cup {Dumps(d, i) : d \in ValidDocs, i \in BOOLEAN}
                  |-> Loads(t)]
DumpsTable == [d \in ValidDocs |-> [i \in BOOLEAN |-> Dumps(d, i)]]
json_loads(t) == IF t \in DOMAIN LoadsTable THEN LoadsTable[t] ELSE Loads(t)
json_dumps(d, indent) == IF d \in DOMAIN DumpsTable THEN DumpsTable[d][indent]
                         ELSE Dumps(d, indent)


NotCalled == [called |-> FALSE]
Returned(r) == [called |-> TRUE, raised |-> r.raised,
                val |-> IF r.raised THEN DefaultMetadata ELSE r.val]

-----------------------------------------------------------------------------
(* The extractor applied to every input of ExtractInputs.                    *)

NoExchange == [op |-> "none", payload |-> <<>>, uuid |-> "", fault |-> "none",
               exc |-> "none", status |-> 0, body |-> JNull]
NoHash == [none |-> TRUE]
NoCall == [op |-> "none", by |-> "", ok |-> TRUE]
NotConnected == [tries |-> 0, slept |-> 0, healthy |-> FALSE]
Threads == {"main", "obs"}
IdleThread == [pc |-> "idle", path |-> "", hash |-> NoHash, docs |-> <<>>]

(* the service before its first request, and the indexer before it starts *)
IdleService ==
    /\ table = <<>> /\ clock = 0 /\ nreq = 0
    /\ last = NoExchange /\ pre = [store |-> EmptyDict, table |-> <<>>]
    /\ acked = EmptyDict
IdleExtract == input = JNull /\ result = NotCalled
IdleWatcher ==
    /\ idx = EmptyDict /\ lastcall = NoCall /\ last_hash = EmptyDict /\ queue = <<>>
    /\ th = [t \in Threads |-> IdleThread]
    /\ mainpc = "health" /\ observing = "off" /\ scan = {}
    /\ writes = 0 /\ dups = 0 /\ faults = 0 /\ raced = FALSE
    /\ setup = NotConnected

InitExtract ==
    /\ store = EmptyDict /\ IdleService /\ IdleWatcher
    /\ input \in ExtractInputs
    /\ result = NotCalled

Extract ==
    /\ ~result.called
    /\ result' = Returned(extract_chat_metadata(input))
    /\ UNCHANGED <<store, svcVars, wVars, input>>

NextExtract == Extract

SpecExtract == InitExtract /\ [][NextExtract]_vars

-----------------------------------------------------------------------------
(* The HTTP service of app.py.                                               *)

(* str(v) as the f-string of line 110 and the VARCHAR cast of the uuid       *)
(* column render an id                                                       *)
PyStr(v) == IF IsStr(v) THEN v.str ELSE ToString(v.num)

JsonPath(uuid) == JSON_DIR \o "/" \o PyStr(uuid) \o ".json"

(* `k in v` of line 95: key of a dict, element of a list; on a str it is a   *)
(* substring test, exact for the strings drawn here, none longer than k;     *)
(* TypeError on None, a bool and a number                                    *)
InRaises(v) == IsNull(v) \/ IsBool(v) \/ IsNum(v)
PyIn(k, v) == IF IsObj(v) THEN k \in DOMAIN v.obj
              ELSE IF IsArr(v) THEN \E i \in 1..Len(v.arr) : v.arr[i] = JStr(k)
              ELSE v.str = k

(* v[k] with a str key k, as in data['data'] and data['data'][0]['data']:    *)
(* only a dict that has the key answers; KeyError or TypeError otherwise     *)
SubscriptOk(v, k) == IsObj(v) /\ k \in DOMAIN v.obj

(* the primary key of CREATE TABLE (line 44) *)
HasRow(tbl, uuid) == \E i \in 1..Len(tbl) : tbl[i].uuid = uuid

(* as InsertRaises, had the table been created without PRIMARY KEY *)
InsertRaisesNoKey(tbl, row) == FALSE

(* INSERT INTO chat_data (lines 126-133): a row whose uuid is in the table   *)
(* already violates the primary key and the statement raises                 *)
InsertRaises(tbl, row) == HasRow(tbl, row.uuid)
Insert(tbl, row) == Append(tbl, row)

(* as TableAtFileWrite, had the INSERT come before the file write *)
TableRowFirst(tbl, row) == IF HasRow(tbl, row.uuid) THEN tbl ELSE Append(tbl, row)

(* the table while the file is written (lines 110-115): the INSERT of lines  *)
(* 126-133 has not run yet                                                   *)
TableAtFileWrite(tbl, row) == tbl

(* the except clauses of a handler (lines 141-148, 237-240): what the        *)
(* client gets for an exception raised inside the try block.  HTTPException  *)
(* is an Exception, so the clause for Exception handles the ones the try     *)
(* block raises itself and answers 500 with their text as detail.            *)
CollectStatus(exc) == IF exc = "none" THEN 200
                      ELSE IF exc = "JSONDecodeError" THEN 400
                      ELSE 500
GetStatus(exc) == IF exc = "none" THEN 200 ELSE 500

Failure(exc, st, tb, ck, fault) ==
    [exc |-> exc, status |-> CollectStatus(exc), body |-> JNull,
     store |-> st, table |-> tb, clock |-> ck, fault |-> fault]

(* collect_chat_data (lines 80-155) on the request body `payload`, with the  *)
(* storage fault that strikes this request if it gets that far ("none",      *)
(* "open": open() fails, "write": json.dump fails after open() truncated the *)
(* file, "db": init_db or the INSERT fails) and the time t utcnow() gives    *)
CollectOutcome(payload, fault, t, st, tb, ck) ==
    LET parsed == json_loads(payload) IN
    IF ~parsed.ok THEN Failure("JSONDecodeError", st, tb, ck, "none")
    ELSE LET env == parsed.val IN
    IF InRaises(env) THEN Failure("TypeError", st, tb, ck, "none")
    ELSE IF PyIn("data", env) /\ ~SubscriptOk(env, "data")
         THEN Failure("TypeError", st, tb, ck, "none")
    ELSE IF ~(PyIn("data", env) /\ IsArr(env.obj["data"]) /\ Len(env.obj["data"].arr) > 0)
         THEN Failure("HTTPException(400)", st, tb, ck, "none")
    ELSE LET item == env.obj["data"].arr[1] IN
    IF ~SubscriptOk(item, "data")
         THEN Failure(IF IsObj(item) THEN "KeyError" ELSE "TypeError", st, tb, ck, "none")
    ELSE LET data == item.obj["data"] IN
    IF ~IsObj(data) THEN Failure("AttributeError", st, tb, ck, "none")
    ELSE LET uuid == DictGet(data, "uuid", JNull) IN
    IF ~Truthy(uuid) THEN Failure("HTTPException(400)", st, tb, ck, "none")
    ELSE LET path == JsonPath(uuid)
             st2 == (path :> json_dumps(data, TRUE)) @@ st
             metadata == extract_chat_metadata(data).val
             row == [uuid |-> PyStr(uuid), collected_at |-> t, json_path |-> path,
                     chat_data |-> json_dumps(data, FALSE),
                     model_name |-> metadata.model_name,
                     conversation_length |-> metadata.conversation_length,
                     first_user_message |-> metadata.first_user_message,
                     last_assistant_message |-> metadata.last_assistant_message]
         IN
    IF fault = "open" THEN Failure("OSError", st, TableAtFileWrite(tb, row), t, "open")
    ELSE IF fault = "write"
         THEN Failure("OSError", (path :> <<>>) @@ st, TableAtFileWrite(tb, row), t, "write")
    ELSE IF fault = "db" THEN Failure("IOException", st2, tb, t, "db")
    ELSE IF InsertRaises(tb, row) THEN Failure("ConstraintException", st2, tb, t, "none")
    ELSE [exc |-> "none", status |-> CollectStatus("none"),
          body |-> JObj([status |-> JStr("success"),
                         message |-> JStr("Data saved with UUID " \o PyStr(uuid)),
                         json_path |-> JStr(path)]),
          store |-> st2, table |-> Insert(tb, row), clock |-> t, fault |-> "none"]

(* as FetchOne, had the SELECT been written without its WHERE clause *)
FetchOneNoWhere(tbl, uuid, i) == IF Len(tbl) = 0 THEN 0 ELSE 1

(* get_chat (lines 219-247) *)
RECURSIVE FetchOne(_, _, _)
FetchOne(tbl, uuid, i) ==
    IF i > Len(tbl) THEN 0
    ELSE IF tbl[i].uuid = uuid THEN i ELSE FetchOne(tbl, uuid, i + 1)

GetFailure(exc, fault) ==
    [exc |-> exc, status |-> GetStatus(exc), body |-> JNull, fault |-> fault]

GetOutcome(uuid, fault, tb) ==
    IF fault = "db" THEN GetFailure("IOException", "db")
    ELSE LET i == FetchOne(tb, uuid, 1) IN
    IF i = 0 THEN GetFailure("HTTPException(404)", "none")
    ELSE LET doc == json_loads(tb[i].chat_data) IN
    IF ~doc.ok THEN GetFailure("JSONDecodeError", "none")
    ELSE [exc |-> "none", status |-> GetStatus("none"), body |-> doc.val, fault |-> "none"]

(* search_chats (lines 157-217).  The strings the search compares, spelled   *)
(* out character by character for ILIKE                                      *)
Chars == ("" :> <<>>) @@ ("hi" :> <<"h", "i">>) @@ ("HI" :> <<"H", "I">>)
           @@ ("hello" :> <<"h", "e", "l", "l", "o">>) @@ ("ell" :> <<"e", "l", "l">>)
Lower(c) == IF c = "H" THEN "h" ELSE IF c = "I" THEN "i" ELSE c

(* text ILIKE '%q%' on a text that is not NULL: q occurs in it, letter case  *)
(* ignored                                                                   *)
Contains(cs, q) ==
    \E k \in 0..(Len(cs) - Len(q)) :
        \A i \in 1..Len(q) : Lower(cs[k + i]) = Lower(q[i])

(* a TEXT column ILIKE ?: NULL, hence not true, on a NULL column *)
ILike(v, q) == IsStr(v) /\ Contains(Chars[v.str], Chars[q])

(* json_extract(chat_data, '$.messages[*].content')::VARCHAR: the text of    *)
(* the JSON array of the contents; NULL when the body has no messages array  *)
RECURSIVE ContentsText(_, _)
ContentsText(ms, i) ==
    IF i > Len(ms) THEN <<>>
    ELSE (IF i > 1 THEN <<",">> ELSE <<>>)
         \o (IF IsObj(ms[i]) /\ "content" \in DOMAIN ms[i].obj /\ IsStr(ms[i].obj["content"])
             THEN <<"\"">> \o Chars[ms[i].obj["content"].str] \o <<"\"">>
             ELSE <<"n", "u", "l", "l">>)
         \o ContentsText(ms, i + 1)
JsonExtractContents(chat_data) ==
    LET doc == json_loads(chat_data).val IN
    IF IsObj(doc) /\ "messages" \in DOMAIN doc.obj /\ IsArr(doc.obj["messages"])
    THEN [null |-> FALSE, text |-> <<"[">> \o ContentsText(doc.obj["messages"].arr, 1) \o <<"]">>]
    ELSE [null |-> TRUE, text |-> <<>>]

(* the condition of lines 172-179 *)
QueryCondition(row, q) ==
    \/ ILike(row.first_user_message, q)
    \/ ILike(row.last_assistant_message, q)
    \/ LET c == JsonExtractContents(row.chat_data) IN ~c.null /\ Contains(c.text, Chars[q])

(* as Where, had the conditions been joined with OR *)
WhereAny(row, query, model, min_length) ==
    \/ ~(Truthy(query) \/ Truthy(model) \/ Truthy(min_length))
    \/ Truthy(query) /\ QueryCondition(row, query.str)
    \/ Truthy(model) /\ row.model_name = model
    \/ Truthy(min_length) /\ row.conversation_length >= min_length.num

(* the WHERE clause built by lines 169-189: a condition for each parameter   *)
(* that is truthy, joined with AND; 1=1 when there is none                   *)
Where(row, query, model, min_length) ==
    /\ Truthy(query) => QueryCondition(row, query.str)
    /\ Truthy(model) => row.model_name = model
    /\ Truthy(min_length) => row.conversation_length >= min_length.num

Summary(row) ==
    [uuid |-> row.uuid, collected_at |-> row.collected_at, model_name |-> row.model_name,
     conversation_length |-> row.conversation_length,
     first_user_message |-> row.first_user_message,
     last_assistant_message |-> row.last_assistant_message]

Min(a, b) == IF a <= b THEN a ELSE b

(* ORDER BY collected_at DESC LIMIT ? (lines 199-200) over the rows M that   *)
(* pass WHERE: every order the statement may return them in, rows of equal   *)
(* collected_at in either order                                              *)
OrderByLimit(tbl, M, limit) ==
    LET k == Min(limit, Cardinality(M)) IN
    {r \in [1..k -> M] :
        /\ \A a, b \in 1..k : a # b => r[a] # r[b]
        /\ \A a, b \in 1..k : a < b => tbl[r[a]].collected_at >= tbl[r[b]].collected_at
        /\ \A i \in M : (\A a \in 1..k : r[a] # i) =>
              \A a \in 1..k : tbl[r[a]].collected_at >= tbl[i].collected_at}

(* the answers search_chats may give *)
SearchOutcomes(query, model, min_length, limit, fault, tb) ==
    IF fault = "db"
    THEN {[exc |-> "IOException", status |-> 500, body |-> JNull, fault |-> "db"]}
    ELSE LET M == {i \in 1..Len(tb) : Where(tb[i], query, model, min_length)} IN
         {[exc |-> "none", status |-> 200,
           body |-> [chats |-> [a \in 1..Len(r) |-> Summary(tb[r[a]])]],
           fault |-> "none"] : r \in OrderByLimit(tb, M, limit)}

(* the payloads that get as far as line 107: only for these do the time and *)
(* the storage fault of the request matter                                   *)
Accepted == {Dumps(Envelope(d), FALSE) : d \in ValidDocs}

InitService ==
    /\ store = EmptyDict /\ IdleService /\ IdleExtract /\ IdleWatcher

(* the document inside the envelope of an accepted payload (line 96) *)
Unwrapped(payload) == json_loads(payload).val.obj["data"].arr[1].obj["data"]

(* POST /collect *)
Collect(payload, fault, t) ==
    /\ nreq < MaxRequests
    /\ \E o \in {CollectOutcome(payload, fault, t, store, table, clock)} :
        /\ store' = o.store
        /\ table' = o.table
        /\ clock' = o.clock
        /\ last' = [op |-> "collect", payload |-> payload, uuid |-> "",
                    fault |-> o.fault, exc |-> o.exc, status |-> o.status,
                    body |-> o.body]
        /\ acked' = IF o.status = 200
                     THEN (PyStr(Unwrapped(payload).obj["uuid"]) :> Unwrapped(payload))
                          @@ acked
                     ELSE acked
    /\ pre' = [store |-> store, table |-> table]
    /\ nreq' = nreq + 1
    /\ UNCHANGED <<extVars, wVars>>

(* GET /chat/{uuid} *)
GetChat(uuid, fault) ==
    /\ nreq < MaxRequests
    /\ \E o \in {GetOutcome(uuid, fault, table)} :
        last' = [op |-> "get", payload |-> <<>>, uuid |-> uuid,
                 fault |-> o.fault, exc |-> o.exc, status |-> o.status, body |-> o.body]
    /\ pre' = [store |-> store, table |-> table]
    /\ nreq' = nreq + 1
    /\ UNCHANGED <<store, table, clock, acked, extVars, wVars>>

(* GET /search *)
Search(query, model, min_length, limit, fault) ==
    /\ nreq < MaxRequests
    /\ \E o \in SearchOutcomes(query, model, min_length, limit, fault, table) :
        last' = [op |-> "search", payload |-> <<>>, uuid |-> "",
                 fault |-> o.fault, exc |-> o.exc, status |-> o.status, body |-> o.body,
                 args |-> [query |-> query, model |-> model,
                           min_length |-> min_length, limit |-> limit]]
    /\ pre' = [store |-> store, table |-> table]
    /\ nreq' = nreq + 1
    /\ UNCHANGED <<store, table, clock, acked, extVars, wVars>>

(* the parameters of the searches drawn: no filter, each filter alone (set   *)
(* or empty), and filters together; every limit a table of this size tells  *)
(* apart                                                                     *)
Filters(query, model, min_length) ==
    [query |-> query, model |-> model, min_length |-> min_length]
SearchFilters ==
    {Filters(JNull, JNull, JNull),
     Filters(JStr(""), JNull, JNull), Filters(JStr("HI"), JNull, JNull),
     Filters(JStr("ell"), JNull, JNull),
     Filters(JNull, JStr(""), JNull), Filters(JNull, JStr("gpt-4"), JNull),
     Filters(JNull, JStr("unknown"), JNull),
     Filters(JNull, JNull, JNum(0)), Filters(JNull, JNull, JNum(1)),
     Filters(JNull, JNull, JNum(2)),
     Filters(JStr("ell"), JStr("gpt-4"), JNull), Filters(JStr("HI"), JNull, JNum(2)),
     Filters(JNull, JStr("gpt-4"), JNum(2)), Filters(JStr("HI"), JStr("gpt-4"), JNum(1)),
     Filters(JStr("ell"), JStr("unknown"), JNum(0))}
Limits == 0..(MaxRequests - 1)

NextService ==
    \/ \E payload \in Payloads :
         \E fault \in (IF payload \in Accepted THEN StorageFaults ELSE {"none"}),
            t \in (IF payload \in Accepted THEN {clock, clock + 1} ELSE {clock}) :
            Collect(payload, fault, t)
    \/ \E uuid \in LookupIds, fault \in {"none", "db"} : GetChat(uuid, fault)
    \/ \E f \in SearchFilters, limit \in Limits :
          Search(f.query, f.model, f.min_length, limit, "none")
    \/ Search(JNull, JNull, JNull, 0, "db")

SpecService == InitService /\ [][NextService]_vars

-----------------------------------------------------------------------------
(* The auto-indexer of indexer.py.                                           *)

(* hashlib.md5(f.read()).hexdigest(): a digest of the text, free of          *)
(* collisions on the texts drawn                                             *)
MD5(text) == [digest |-> text]

(* file_path.endswith('.json') and the glob "*.json", on the paths drawn *)
EndsWithJson(path) == path \in {PathA, PathB}

keys_to_remove == {"settings", "current_leaf_message_uuid", "is_starred"}
_clean_document(doc) ==
    JObj([k \in DOMAIN doc.obj \ keys_to_remove |-> doc.obj[k]])

(* lines 34-44: json.load, the documents cleaned, the uuids found *)
Uuids(docs) ==
    LET keyed == SelectSeq(docs, LAMBDA d : "uuid" \in DOMAIN d.obj)
    IN [i \in 1..Len(keyed) |-> keyed[i].obj["uuid"]]
Prepare(text) ==
    LET parsed == json_loads(text) IN
    IF ~parsed.ok THEN Raised                                  \* JSONDecodeError
    ELSE LET data == parsed.val IN
    IF IsObj(data) THEN Value(<<_clean_document(data)>>)
    ELSE IF ~HasLen(data) THEN Raised                          \* not iterable
    ELSE LET items == PyIter(data) IN
    IF \E i \in 1..Len(items) : ~IsObj(items[i]) THEN Raised   \* doc.items()
    ELSE Value([i \in 1..Len(items) |-> _clean_document(items[i])])

(* index.delete_documents(uuids) and index.add_documents(documents) on an    *)
(* index whose primary key is uuid: a document added replaces the one of     *)
(* the same key; a document without the key has no place in the index        *)
IdSet(uuids) == {PyStr(uuids[i]) : i \in 1..Len(uuids)}
delete_documents(ix, uuids) ==
    [k \in DOMAIN ix \ IdSet(uuids) |-> ix[k]]
RECURSIVE add_documents(_, _, _)
add_documents(ix, docs, i) ==
    IF i > Len(docs) THEN ix
    ELSE IF "uuid" \in DOMAIN docs[i].obj
         THEN add_documents((PyStr(docs[i].obj["uuid"]) :> docs[i]) @@ ix, docs, i + 1)
         ELSE add_documents(ix, docs, i + 1)

(* the directories the indexer may find when it starts: each path absent or *)
(* holding what was written while the indexer was down, a document or, for   *)
(* a.json, the remains of a write that failed                                *)
Directories ==
    {[p \in S |-> IF p = PathA THEN a ELSE TextB] :
        S \in SUBSET {PathA, PathB}, a \in {TextA1, NotJson}}

InitWatcher ==
    /\ store \in Directories
    /\ IdleService /\ IdleExtract /\ IdleWatcher

(* a thread runs _handle_file only while it lives: the main thread inside    *)
(* the startup loop, the observer thread while the observer is on or is      *)
(* finishing the event it was handling when stop() was called                *)
Running(t) == IF t = "main" THEN mainpc = "scan" ELSE observing \in {"on", "stopping"}
Other(t) == IF t = "main" THEN "obs" ELSE "main"

(* a process writes a file of the directory while the observer is on, and  *)
(* the observer queues `n` created/modified events for the write: a          *)
(* filesystem may report one write more than once                            *)
Event(path) == [path |-> path, is_directory |-> FALSE]
WriteFile(path, text, n) ==
    /\ observing = "on"
    /\ writes < MaxWrites
    /\ dups + (n - 1) <= MaxDups
    /\ store' = (path :> text) @@ store
    /\ writes' = writes + 1
    /\ dups' = dups + (n - 1)
    /\ queue' = queue \o [i \in 1..n |-> Event(path)]
    /\ UNCHANGED <<svcVars, extVars, setup, idx, lastcall, last_hash, th, mainpc, observing,
                   scan, faults, raced>>

(* an event for something that is no document: a file that is no .json, a    *)
(* subdirectory                                                              *)
OtherEvent(ev) ==
    /\ dups < MaxDups
    /\ observing = "on"
    /\ queue' = Append(queue, ev)
    /\ dups' = dups + 1
    /\ UNCHANGED <<store, svcVars, extVars, setup, idx, lastcall, last_hash, th, mainpc,
                   observing, scan, writes, faults, raced>>

(* setup_meilisearch (lines 73-96).  retries health checks at most; the     *)
(* first that succeeds ends the loop; one that fails is followed by a sleep, *)
(* but the last one, whose exception is raised again and ends the process    *)
retries == 5
ReRaiseNever(i) == FALSE                 \* as ReRaise, had lines 85-86 been left out
ReRaise(i) == i = retries - 1
Health(ok) ==
    /\ mainpc = "health"
    /\ setup.tries < retries
    /\ IF ok
       THEN /\ mainpc' = "create_index"
            /\ setup' = [setup EXCEPT !.tries = @ + 1, !.healthy = TRUE]
       ELSE /\ mainpc' = IF ReRaise(setup.tries) THEN "setup_failed" ELSE "sleep5"
            /\ setup' = [setup EXCEPT !.tries = @ + 1]
    /\ UNCHANGED <<store, svcVars, extVars, idx, lastcall, last_hash, queue, th,
                   observing, scan, writes, dups, faults, raced>>

(* line 88: time.sleep(5), then the next turn of the loop of line 79, which *)
(* ends when range(retries) is used up                                       *)
Sleep5 ==
    /\ mainpc = "sleep5"
    /\ mainpc' = IF setup.tries < retries THEN "health" ELSE "create_index"
    /\ setup' = [setup EXCEPT !.slept = @ + 1]
    /\ UNCHANGED <<store, svcVars, extVars, idx, lastcall, last_hash, queue, th,
                   observing, scan, writes, dups, faults, raced>>

(* lines 91-96: create_index, whose exception (the index exists already, or *)
(* any other) is printed and dropped; setup_meilisearch returns the client   *)
(* and its locals are gone                                                   *)
CreateIndex(ok) ==
    /\ mainpc = "create_index"
    /\ mainpc' = "start"
    /\ setup' = [tries |-> 0, slept |-> 0, healthy |-> setup.healthy]
    /\ UNCHANGED <<store, svcVars, extVars, idx, lastcall, last_hash, queue, th,
                   observing, scan, writes, dups, faults, raced>>

(* lines 109-114: the handler, the observer, observer.start() *)
ObserverStart ==
    /\ mainpc = "start"
    /\ mainpc' = "glob"
    /\ observing' = "on"
    /\ UNCHANGED <<store, svcVars, extVars, setup, idx, lastcall, last_hash, queue, th, scan,
                   writes, dups, faults, raced>>

(* as Glob, had the pattern of line 118 matched no file *)
GlobNothing ==
    /\ mainpc = "glob"
    /\ scan' = {}
    /\ mainpc' = "scan"
    /\ UNCHANGED <<store, svcVars, extVars, setup, idx, lastcall, last_hash, queue, th,
                   observing, writes, dups, faults, raced>>

(* line 118: glob.glob lists the *.json files present now *)
Glob ==
    /\ mainpc = "glob"
    /\ scan' = {p \in DOMAIN store : EndsWithJson(p)}
    /\ mainpc' = "scan"
    /\ UNCHANGED <<store, svcVars, extVars, setup, idx, lastcall, last_hash, queue, th,
                   observing, writes, dups, faults, raced>>

(* _handle_file(path) is entered by thread t; lines 25-26 return at once on  *)
(* a path that does not end in .json                                         *)
Enter(t, path) ==
    /\ th' = [th EXCEPT ![t] =
                IF EndsWithJson(path)
                THEN [pc |-> "hash", path |-> path, hash |-> NoHash, docs |-> <<>>]
                ELSE IdleThread]
    /\ raced' = (raced \/ (EndsWithJson(path) /\ th[Other(t)].pc # "idle"))

(* lines 118-119: the startup loop takes the next file of the glob, in the   *)
(* order the directory listing happens to give; past the last one the main   *)
(* thread sleeps (lines 121-123)                                             *)
ScanNext(path) ==
    /\ mainpc = "scan" /\ th["main"].pc = "idle"
    /\ path \in scan
    /\ scan' = scan \ {path}
    /\ Enter("main", path)
    /\ UNCHANGED <<store, svcVars, extVars, setup, idx, lastcall, last_hash, queue, mainpc,
                   observing, writes, dups, faults>>

ScanDone ==
    /\ mainpc = "scan" /\ th["main"].pc = "idle"
    /\ scan = {}
    /\ mainpc' = "sleep"
    /\ UNCHANGED <<store, svcVars, extVars, setup, idx, lastcall, last_hash, queue, th,
                   observing, scan, writes, dups, faults, raced>>

(* the observer thread dispatches the oldest event to on_created or          *)
(* on_modified (lines 63-71), which ignore a directory                       *)
Dispatch ==
    /\ observing = "on" /\ th["obs"].pc = "idle"
    /\ queue # <<>>
    /\ queue' = Tail(queue)
    /\ IF Head(queue).is_directory
       THEN UNCHANGED <<th, raced>>
       ELSE Enter("obs", Head(queue).path)
    /\ UNCHANGED <<store, svcVars, extVars, setup, idx, lastcall, last_hash, mainpc, observing,
                   scan, writes, dups, faults>>

(* how a call of _handle_file by thread t ends: it returns, or the           *)
(* exception leaves it.  An exception that leaves it in the startup loop     *)
(* ends run_auto_indexer and with it the process and its daemon observer     *)
(* thread; one that leaves it in the observer thread ends that thread.       *)
Return(t) == th' = [th EXCEPT ![t] = IdleThread]
Escape(t) ==
    /\ th' = [th EXCEPT ![t] = IdleThread]
    /\ observing' = "dead"
    /\ mainpc' = IF t = "main" THEN "crashed" ELSE mainpc

(* lines 28-30: _get_file_hash, outside the try block, and the comparison   *)
(* with the digest recorded for the path                                     *)
UnchangedNever(path, hash) == FALSE      \* as Unchanged, had lines 29-30 been left out
Unchanged(path, hash) == path \in DOMAIN last_hash /\ last_hash[path] = hash
HashFile(t, readable) ==
    /\ Running(t) /\ th[t].pc = "hash"
    /\ ~readable => faults < MaxFaults
    /\ faults' = IF readable THEN faults ELSE faults + 1
    /\ IF readable /\ th[t].path \in DOMAIN store
       THEN /\ IF Unchanged(th[t].path, MD5(store[th[t].path]))
               THEN Return(t)
               ELSE th' = [th EXCEPT ![t].pc = "read",
                                     ![t].hash = MD5(store[th[t].path])]
            /\ UNCHANGED <<mainpc, observing>>
       ELSE Escape(t)
    /\ UNCHANGED <<store, svcVars, extVars, setup, idx, lastcall, last_hash, queue, scan,
                   writes, dups, raced>>

(* lines 34-44, inside the try block: the file is opened and read a second   *)
(* time, parsed and cleaned; a file that is gone, like one that does not     *)
(* parse, raises into the except clause of line 55                           *)
ReadFile(t) ==
    /\ Running(t) /\ th[t].pc = "read"
    /\ \E r \in {IF th[t].path \in DOMAIN store
                 THEN Prepare(store[th[t].path]) ELSE Raised} :
         IF r.raised
         THEN Return(t)
         ELSE th' = [th EXCEPT ![t].docs = r.val,
                               ![t].pc = IF Uuids(r.val) # <<>> THEN "delete" ELSE "add"]
    /\ UNCHANGED <<store, svcVars, extVars, setup, idx, lastcall, last_hash, queue, mainpc,
                   observing, scan, writes, dups, faults, raced>>

(* lines 47-48 *)
DeleteDocuments(t, ok) ==
    /\ Running(t) /\ th[t].pc = "delete"
    /\ ~ok => faults < MaxFaults
    /\ faults' = IF ok THEN faults ELSE faults + 1
    /\ lastcall' = [op |-> "delete", by |-> t, ok |-> ok]
    /\ IF ok
       THEN /\ idx' = delete_documents(idx, Uuids(th[t].docs))
            /\ th' = [th EXCEPT ![t].pc = "add"]
       ELSE /\ Return(t)
            /\ UNCHANGED idx
    /\ UNCHANGED <<store, svcVars, extVars, setup, last_hash, queue, mainpc, observing, scan,
                   writes, dups, raced>>

(* as AddDocuments, had line 52 stood in a finally clause *)
AddDocumentsThenRecord(t, ok) ==
    /\ Running(t) /\ th[t].pc = "add"
    /\ ~ok => faults < MaxFaults
    /\ faults' = IF ok THEN faults ELSE faults + 1
    /\ lastcall' = [op |-> "add", by |-> t, ok |-> ok]
    /\ idx' = IF ok THEN add_documents(idx, th[t].docs, 1) ELSE idx
    /\ th' = [th EXCEPT ![t].pc = "record"]
    /\ UNCHANGED <<store, svcVars, extVars, setup, last_hash, queue, mainpc, observing,
                   scan, writes, dups, raced>>

(* line 51 *)
AddDocuments(t, ok) ==
    /\ Running(t) /\ th[t].pc = "add"
    /\ ~ok => faults < MaxFaults
    /\ faults' = IF ok THEN faults ELSE faults + 1
    /\ lastcall' = [op |-> "add", by |-> t, ok |-> ok]
    /\ IF ok
       THEN /\ idx' = add_documents(idx, th[t].docs, 1)
            /\ th' = [th EXCEPT ![t].pc = "record"]
       ELSE /\ Return(t)
            /\ UNCHANGED idx
    /\ UNCHANGED <<store, svcVars, extVars, setup, last_hash, queue, mainpc, observing, scan,
                   writes, dups, raced>>

(* lines 52-53 *)
RecordHash(t) ==
    /\ Running(t) /\ th[t].pc = "record"
    /\ last_hash' = (th[t].path :> th[t].hash) @@ last_hash
    /\ Return(t)
    /\ UNCHANGED <<store, svcVars, extVars, setup, idx, lastcall, queue, mainpc, observing, scan,
                   writes, dups, faults, raced>>

(* KeyboardInterrupt, raised in the main thread when SIGINT arrives.  Only    *)
(* the sleep loop of lines 121-123 is inside a try that catches it: there    *)
(* line 125 stops the observer, which finishes the event it is handling and  *)
(* dispatches no other, and line 126 waits for it.  In the startup loop      *)
(* (lines 118-119) it leaves _handle_file, whose except clause catches       *)
(* Exception only, and run_auto_indexer: the process ends where it stands,   *)
(* and the observer thread, a daemon thread, ends with it wherever it is.    *)
Interrupt ==
    /\ \/ /\ mainpc \in {"glob", "scan"}
          /\ mainpc' = "killed"
          /\ observing' = "killed"
          /\ scan' = {}
       \/ /\ mainpc = "sleep"
          /\ mainpc' = "join"
          /\ observing' = IF observing = "on" THEN "stopping" ELSE observing
          /\ UNCHANGED scan
    /\ queue' = <<>>
    /\ UNCHANGED <<store, svcVars, extVars, setup, idx, lastcall, last_hash, th,
                   writes, dups, faults, raced>>

(* line 126: observer.join() returns once the observer thread has ended *)
Join ==
    /\ mainpc = "join"
    /\ \/ observing = "dead"
       \/ observing = "stopping" /\ th["obs"].pc = "idle"
    /\ mainpc' = "exited"
    /\ observing' = IF observing = "stopping" THEN "stopped" ELSE observing
    /\ UNCHANGED <<store, svcVars, extVars, setup, idx, lastcall, last_hash, queue, th,
                   scan, writes, dups, faults, raced>>

OtherEvents == {[path |-> PathNotes, is_directory |-> FALSE],
                [path |-> JSON_DIR \o "/sub", is_directory |-> TRUE]}

NextWatcher ==
    \/ \E w \in WriteOptions, n \in {1, 2} : WriteFile(w[1], w[2], n)
    \/ \E ev \in OtherEvents : OtherEvent(ev)
    \/ \E ok \in BOOLEAN : Health(ok)
    \/ Sleep5
    \/ \E ok \in BOOLEAN : CreateIndex(ok)
    \/ ObserverStart
    \/ Glob
    \/ \E path \in {PathA, PathB} : ScanNext(path)
    \/ ScanDone
    \/ Dispatch
    \/ Interrupt
    \/ Join
    \/ \E t \in Threads :
         \/ \E readable \in BOOLEAN : HashFile(t, readable)
         \/ ReadFile(t)
         \/ \E ok \in BOOLEAN : DeleteDocuments(t, ok) \/ AddDocuments(t, ok)
         \/ RecordHash(t)

SpecWatcher == InitWatcher /\ [][NextWatcher]_vars

-----------------------------------------------------------------------------
(* Properties of the HTTP service, checked under SpecService.                *)

LastId == PyStr(Unwrapped(last.payload).obj["uuid"])
RowsOf(tbl, uuid) == {i \in 1..Len(tbl) : tbl[i].uuid = uuid}
RowOf(tbl, uuid) == tbl[FetchOne(tbl, uuid, 1)]
Reingest == /\ last.op = "collect" /\ last.payload \in Accepted
            /\ HasRow(pre.table, LastId)

(* C1: a /collect of a valid payload whose id has a record already, struck   *)
(* by no storage fault, answers success, and afterwards the record of that   *)
(* id holds the new document and the metadata derived from it.               *)
C1_ReingestReplaces ==
    (Reingest /\ last.fault = "none") =>
        /\ last.status = 200
        /\ HasRow(table, LastId)
        /\ LET row == RowOf(table, LastId)
               doc == Unwrapped(last.payload)
               metadata == extract_chat_metadata(doc).val
           IN /\ json_loads(row.chat_data) = [ok |-> TRUE, val |-> doc]
              /\ row.model_name = metadata.model_name
              /\ row.conversation_length = metadata.conversation_length
              /\ row.first_user_message = metadata.first_user_message
              /\ row.last_assistant_message = metadata.last_assistant_message

(* C2: no id ever has two records or two files; after a /collect of an id    *)
(* that had a record already there is exactly one record and one file of it. *)
C2_NoDuplication ==
    /\ \A i, j \in 1..Len(table) : table[i].uuid = table[j].uuid => i = j
    /\ Reingest =>
         /\ Cardinality(RowsOf(table, LastId)) = 1
         /\ Cardinality({p \in DOMAIN store :
                           p = JsonPath(Unwrapped(last.payload).obj["uuid"])}) = 1

C2_Witness == Reingest /\ last.fault = "none" /\ nreq >= 2

(* C3: a GET /chat/{id} that no storage fault strikes, for an id whose       *)
(* /collect was answered with success, answers 200 with a body equal to the  *)
(* document that was collected.                                              *)
C3_RoundTrip ==
    (last.op = "get" /\ last.fault = "none" /\ last.uuid \in DOMAIN acked) =>
        (last.status = 200 /\ last.body = acked[last.uuid])

C3_Witness ==
    /\ last.op = "get" /\ last.uuid \in DOMAIN acked
    /\ last.status = 200 /\ last.body = acked[last.uuid]
    /\ Len(table) >= 2

(* C4: /collect answers 400 to a payload that is no JSON, to an envelope     *)
(* whose `data` is missing, no array or empty, and to a document without id  *)
(* or with an empty one; it answers 500 to none of these.                    *)
ClientErrors ==
    {NotJson}
    \cup {Dumps(e, FALSE) : e \in {JObj(EmptyDict), JObj([data |-> JStr("x")]),
                                    JObj([data |-> JArr(<<>>)])}}
    \cup {Dumps(Envelope(d), FALSE) : d \in NoIdDocs}
C4_ClientErrorsAre400 ==
    (last.op = "collect" /\ last.payload \in ClientErrors) => last.status = 400

(* C5: GET /chat/{id} answers 404 when the table has no record of the id,    *)
(* and 200 with the stored document when it has one.                         *)
C5_MissingIs404 ==
    (last.op = "get" /\ last.fault = "none") =>
        IF HasRow(table, last.uuid)
        THEN /\ last.status = 200
             /\ [ok |-> TRUE, val |-> last.body]
                  = json_loads(RowOf(table, last.uuid).chat_data)
        ELSE last.status = 404

(* what C12 asks of a record under the filters of a search.  A filter        *)
(* counts as supplied when it is not None (`empty` false), or when it is     *)
(* neither None nor empty: "" or 0 (`empty` true).                           *)
Supplied(v, empty) == IF empty THEN Truthy(v) ELSE ~IsNull(v)
TextHas(v, q) == IsStr(v) /\ Contains(Chars[v.str], Chars[q])
BodyOf(row) == json_loads(row.chat_data).val
AnyContentHas(body, q) ==
    /\ "messages" \in DOMAIN body.obj /\ IsArr(body.obj["messages"])
    /\ \E i \in 1..Len(body.obj["messages"].arr) :
          LET m == body.obj["messages"].arr[i] IN
          IsObj(m) /\ "content" \in DOMAIN m.obj /\ TextHas(m.obj["content"], q)
Satisfies(row, args, empty) ==
    /\ Supplied(args.query, empty) =>
          \/ TextHas(row.first_user_message, args.query.str)
          \/ TextHas(row.last_assistant_message, args.query.str)
          \/ AnyContentHas(BodyOf(row), args.query.str)
    /\ Supplied(args.model, empty) => row.model_name = args.model
    /\ Supplied(args.min_length, empty) => row.conversation_length >= args.min_length.num
Searched == last.op = "search" /\ last.fault = "none"
FirstOfSatisfying(empty) ==
    Searched =>
        LET chats == last.body.chats
            S == {i \in 1..Len(table) : Satisfies(table[i], last.args, empty)}
            Got == {i \in 1..Len(table) :
                       \E a \in 1..Len(chats) : chats[a] = Summary(table[i])}
        IN /\ last.status = 200
           /\ Len(chats) = Min(last.args.limit, Cardinality(S))
           /\ Got \subseteq S /\ Cardinality(Got) = Len(chats)
           /\ \A a, b \in 1..Len(chats) :
                 a < b => chats[a].collected_at >= chats[b].collected_at
           /\ \A i \in S \ Got : \A a \in 1..Len(chats) :
                 chats[a].collected_at >= table[i].collected_at
           /\ \A a \in 1..Len(chats) :
                 /\ Supplied(last.args.min_length, empty) =>
                       chats[a].conversation_length >= last.args.min_length.num
                 /\ Supplied(last.args.model, empty) =>
                       chats[a].model_name = last.args.model

(* C12 as stated: a search returns exactly the first `limit` records, in     *)
(* collected_at-descending order, of the records that satisfy every filter   *)
(* supplied; with model = m every record returned has model_name = m, with   *)
(* min_length = n none has fewer than n messages.                            *)
C12_SearchFirstOfMatching == FirstOfSatisfying(FALSE)

(* C12 amended: the same, of the records that satisfy every filter that is   *)
(* supplied and not empty; a filter given as the empty string, or min_length *)
(* 0, imposes no constraint, as an absent one.                               *)
C12_SearchNonEmptyFilters == FirstOfSatisfying(TRUE)

(* a search with a model and a min_length filter and limit 1 over a table of *)
(* two records that both pass, collected at different times                  *)
C12_Witness ==
    /\ Searched /\ last.status = 200
    /\ last.args.model = JStr("gpt-4") /\ last.args.limit = 1
    /\ Len(table) = 2 /\ table[1].collected_at < table[2].collected_at
    /\ \A i \in 1..2 : Satisfies(table[i], last.args, TRUE)
    /\ Len(last.body.chats) = 1
    /\ last.body.chats[1].uuid = table[2].uuid

(* C15: every record has its file <id>.json in the directory; a /collect     *)
(* whose file write fails leaves the table as it was; one whose database     *)
(* write fails answers 500, leaves the table as it was and the file it has   *)
(* written in place.                                                         *)
C15_FileBeforeRecord ==
    /\ \A i \in 1..Len(table) :
          /\ table[i].json_path \in DOMAIN store
          /\ table[i].json_path = JSON_DIR \o "/" \o table[i].uuid \o ".json"
    /\ (last.op = "collect" /\ last.fault \in {"open", "write"}) =>
          last.status = 500 /\ table = pre.table
    /\ (last.op = "collect" /\ last.fault = "db") =>
          /\ last.status = 500 /\ table = pre.table
          /\ JsonPath(Unwrapped(last.payload).obj["uuid"]) \in DOMAIN store
          /\ store[JsonPath(Unwrapped(last.payload).obj["uuid"])]
                = json_dumps(Unwrapped(last.payload), TRUE)

(* a failed database write on a new id after a failed file write on another: *)
(* both files there, no record                                               *)
C15_Witness ==
    /\ last.op = "collect" /\ last.fault = "db"
    /\ ~HasRow(table, LastId)
    /\ JsonPath(Unwrapped(last.payload).obj["uuid"]) \in DOMAIN store
    /\ \E p \in DOMAIN store : store[p] = <<>>
    /\ table = <<>>

(* C16: two /collect of one id with different documents, struck by no        *)
(* storage fault, both answer without a storage error, and the file and the  *)
(* record each hold the document of the request that wrote last.  The        *)
(* handler has no await after it has read the body, so the two requests of   *)
(* a race run one after the other, in either order.                          *)
C16_LastWriterWins ==
    (/\ Reingest /\ last.fault = "none"
     /\ RowOf(pre.table, LastId).chat_data # json_dumps(Unwrapped(last.payload), FALSE)) =>
        /\ last.status # 500
        /\ store[JsonPath(Unwrapped(last.payload).obj["uuid"])]
              = json_dumps(Unwrapped(last.payload), TRUE)
        /\ RowOf(table, LastId).chat_data = json_dumps(Unwrapped(last.payload), FALSE)

(* C19: a /collect of a payload that fails validation answers an error and   *)
(* leaves the directory and the table as they are; no /collect makes a call  *)
(* on the search index.                                                      *)
Invalid(payload) ==
    LET parsed == Loads(payload) IN
    \/ ~parsed.ok
    \/ ~IsObj(parsed.val)
    \/ "data" \notin DOMAIN parsed.val.obj
    \/ ~IsArr(parsed.val.obj["data"])
    \/ parsed.val.obj["data"].arr = <<>>
    \/ LET item == parsed.val.obj["data"].arr[1] IN
       \/ ~IsObj(item) \/ "data" \notin DOMAIN item.obj
       \/ ~IsObj(item.obj["data"])
       \/ "uuid" \notin DOMAIN item.obj["data"].obj
       \/ item.obj["data"].obj["uuid"] \in {JNull, JStr("")}
C19_RejectedChangesNothing ==
    [][(last' # last /\ last'.op = "collect") =>
          /\ idx' = idx /\ lastcall' = lastcall
          /\ Invalid(last'.payload) =>
                /\ last'.status \in {400, 500}
                /\ store' = store /\ table' = table]_vars

(* a document without id turned down after a document was stored *)
C19_Witness ==
    /\ last.op = "collect" /\ Invalid(last.payload) /\ last.exc = "HTTPException(400)"
    /\ json_loads(last.payload).ok /\ IsObj(json_loads(last.payload).val)
    /\ table # <<>> /\ store = pre.store /\ table = pre.table

-----------------------------------------------------------------------------
(* Properties of the extractor, checked under SpecExtract.                   *)

(* the inputs C10 calls malformed: a body that is no object, `messages`      *)
(* that is null or no list, an element that is no object, and a message      *)
(* without content where a scan finds its match                              *)
IsRole(m, role) == IsObj(m) /\ DictGet(m, "role", JNull) = JStr(role)
NoContentAtMatch(ms, role) ==
    \E i \in 1..Len(ms) :
        /\ IsRole(ms[i], role) /\ "content" \notin DOMAIN ms[i].obj
        /\ \A j \in 1..(i - 1) : ~IsRole(ms[j], role)
Malformed(body) ==
    \/ ~IsObj(body)
    \/ /\ "messages" \in DOMAIN body.obj
       /\ LET msgs == body.obj["messages"] IN
          \/ ~IsArr(msgs)
          \/ \E i \in 1..Len(msgs.arr) : ~IsObj(msgs.arr[i])
          \/ NoContentAtMatch(msgs.arr, "user")
          \/ NoContentAtMatch(Reversed(msgs.arr), "assistant")

(* C10: the extractor never raises, and on every malformed input it returns  *)
(* exactly the defaults.                                                     *)
C10_MalformedGivesDefaults ==
    result.called =>
        /\ ~result.raised
        /\ Malformed(input) => result.val = DefaultMetadata

(* the messages of a body, none when the field is absent *)
MessagesOf(body) == DictGet(body, "messages", JArr(<<>>)).arr
Matches(ms, role) == {i \in 1..Len(ms) : IsRole(ms[i], role)}
Lowest(S) == CHOOSE i \in S : \A j \in S : i <= j
Highest(S) == CHOOSE i \in S : \A j \in S : j <= i
ContentAt(ms, S, i) == IF S = {} THEN JNull ELSE ms[i].obj["content"]

(* C11: on a well-formed body the extractor returns the body's model, or     *)
(* "unknown" when it has none; the number of messages, 0 when the field is   *)
(* absent; the content of the lowest-index message of role user and of the   *)
(* highest-index message of role assistant, each null when there is no such  *)
(* message.                                                                  *)
C11_WellFormedMetadata ==
    (result.called /\ ~Malformed(input)) =>
        LET ms == MessagesOf(input)
            us == Matches(ms, "user")
            as == Matches(ms, "assistant")
        IN /\ ~result.raised
           /\ result.val.model_name =
                 (IF "model" \in DOMAIN input.obj THEN input.obj["model"]
                  ELSE JStr("unknown"))
           /\ result.val.conversation_length = Len(ms)
           /\ result.val.first_user_message = ContentAt(ms, us, Lowest(us))
           /\ result.val.last_assistant_message = ContentAt(ms, as, Highest(as))
           /\ "messages" \notin DOMAIN input.obj =>
                 /\ result.val.conversation_length = 0
                 /\ result.val.first_user_message = JNull
                 /\ result.val.last_assistant_message = JNull

(* a well-formed body with two assistant messages and a user message *)
C11_Witness ==
    /\ result.called /\ ~Malformed(input)
    /\ "model" \in DOMAIN input.obj
    /\ MessagesOf(input) = <<Msg("assistant", "hello"), Msg("user", "hi"),
                             Msg("assistant", "bye")>>
    /\ result.val.last_assistant_message = JStr("bye")
    /\ result.val.first_user_message = JStr("hi")

-----------------------------------------------------------------------------
(* Properties of the auto-indexer, checked under SpecWatcher.                *)

(* C6: a call of _handle_file that finds the digest of the file equal to the *)
(* one recorded for its path returns at once: it makes no call on the index  *)
(* and leaves the index and _last_hash as they are.                          *)
SameAsRecorded(t) ==
    /\ th[t].pc = "hash"
    /\ th[t].path \in DOMAIN store /\ th[t].path \in DOMAIN last_hash
    /\ last_hash[th[t].path] = MD5(store[th[t].path])
C6_DuplicateIsNoOp ==
    [][\A t \in Threads :
         (SameAsRecorded(t) /\ th'[t] # th[t]) =>
            /\ th'[t].pc = "idle"
            /\ idx' = idx /\ lastcall' = lastcall /\ last_hash' = last_hash]_vars

C6_Witness == \E t \in Threads : SameAsRecorded(t) /\ lastcall.op = "add"

(* C7: a call of _handle_file that found ids in its file deletes them and    *)
(* then adds its documents, with no other call on the index in between: when *)
(* it is about to add, the latest call on the index is its own delete.       *)
C7_DeleteThenAdd ==
    \A t \in Threads :
        (th[t].pc = "add" /\ Uuids(th[t].docs) # <<>>) =>
            lastcall = [op |-> "delete", by |-> t, ok |-> TRUE]

(* C8: no error in the handling of one file leaves _handle_file: the startup *)
(* loop is never ended by an exception and the observer thread never dies.   *)
C8_FailuresContained == mainpc # "crashed" /\ observing # "dead"

(* C9: once the startup loop is done, every event is handled and no fault    *)
(* has struck, every path with a digest recorded whose file holds documents  *)
(* has the digest of its current text recorded, and the index holds, for     *)
(* each id in the file, the cleaned document of that text.  Stated for the   *)
(* runs in which no two calls of _handle_file overlapped.                    *)
Quiescent ==
    /\ mainpc = "sleep" /\ observing = "on" /\ queue = <<>>
    /\ \A t \in Threads : th[t].pc = "idle"
InIndex(docs) ==
    \A i \in 1..Len(docs) :
        "uuid" \in DOMAIN docs[i].obj =>
            /\ PyStr(docs[i].obj["uuid"]) \in DOMAIN idx
            /\ idx[PyStr(docs[i].obj["uuid"])] = docs[i]
Consistent ==
    \A p \in DOMAIN last_hash :
        ~Prepare(store[p]).raised =>
            /\ last_hash[p] = MD5(store[p])
            /\ InIndex(Prepare(store[p]).val)
C9_EventuallyConsistent ==
    (Quiescent /\ faults = 0 /\ ~raced) => Consistent

(* C13: the indexer handles one file at a time: at no point are two calls    *)
(* of _handle_file in progress, the startup loop and the handling of events  *)
(* included.                                                                 *)
C13_OneAtATime == ~(\A t \in Threads : th[t].pc # "idle")

(* C14: when the startup loop is done, with no fault and no write since the  *)
(* indexer started, every *.json file of the directory has the digest of     *)
(* its text recorded and its cleaned documents in the index.                 *)
StartupDone == mainpc = "sleep" /\ faults = 0 /\ writes = 0
Reconciled(p) ==
    /\ p \in DOMAIN last_hash /\ last_hash[p] = MD5(store[p])
    /\ ~Prepare(store[p]).raised /\ InIndex(Prepare(store[p]).val)
JsonFiles == {p \in DOMAIN store : EndsWithJson(p)}
C14_StartupConverges == StartupDone => \A p \in JsonFiles : Reconciled(p)

(* C14 amended: the same, of every *.json file whose text parses to a        *)
(* document or a list of documents; a file that does not parse is skipped    *)
(* with no digest recorded.                                                  *)
C14_StartupConvergesParsable ==
    StartupDone =>
        \A p \in JsonFiles :
            IF Prepare(store[p]).raised THEN p \notin DOMAIN last_hash ELSE Reconciled(p)

(* the startup loop done over two files written while the indexer was down *)
C14_Witness ==
    /\ StartupDone /\ JsonFiles = {PathA, PathB}
    /\ \A p \in JsonFiles : Reconciled(p)
    /\ lastcall.by = "main"

(* C17: when the process ends on the shutdown signal, the observer has been  *)
(* stopped and no call of _handle_file is left unfinished.                   *)
C17_GracefulShutdown ==
    mainpc \in {"killed", "exited"} =>
        /\ observing \in {"stopped", "dead"}
        /\ \A t \in Threads : th[t].pc = "idle"

(* C18: _last_hash changes only where a call records the digest it took,     *)
(* for its own path, and a call gets there only from an add that succeeded;  *)
(* a call that ends after a failed parse, delete or add leaves _last_hash    *)
(* as it was, so the same content is handled again at the next event.        *)
C18_HashOnlyOnSuccess ==
    [][\A t \in Threads :
         /\ (th'[t].pc = "record" /\ th[t].pc # "record") =>
               /\ th[t].pc = "add"
               /\ lastcall' = [op |-> "add", by |-> t, ok |-> TRUE]
         /\ (th[t].pc \in {"read", "delete", "add"} /\ th'[t].pc = "idle") =>
               last_hash' = last_hash
         /\ (last_hash' # last_hash) =>
               \E u \in Threads :
                  /\ th[u].pc = "record" /\ th'[u].pc = "idle"
                  /\ last_hash' = (th[u].path :> th[u].hash) @@ last_hash]_vars

(* a call ended by a failed add on a path that has no digest recorded *)
C18_Witness ==
    /\ lastcall.op = "add" /\ ~lastcall.ok
    /\ th[lastcall.by].pc = "idle"
    /\ idx = EmptyDict /\ last_hash = EmptyDict /\ faults = 1

(* C20: setup makes at most `retries` health checks; it sleeps after each    *)
(* one that fails but the last, whose error ends the process; it goes on to  *)
(* create the index, and the indexer starts, only after a check succeeded,   *)
(* and none is made after that.                                              *)
InSetup == mainpc \in {"health", "sleep5", "setup_failed"}
C20_BoundedRetry ==
    /\ setup.tries <= retries
    /\ mainpc = "health" => setup.tries < retries /\ setup.slept = setup.tries
    /\ mainpc = "sleep5" => setup.tries \in 1..(retries - 1) /\ setup.slept = setup.tries - 1
    /\ mainpc = "setup_failed" => setup.tries = retries /\ setup.slept = retries - 1
    /\ InSetup <=> ~setup.healthy
    /\ ~setup.healthy => observing = "off" /\ idx = EmptyDict /\ lastcall = NoCall

(* the fifth check has failed, after four sleeps *)
C20_Witness == mainpc = "setup_failed" /\ setup.tries = retries /\ setup.slept = 4

====
